---- MODULE Spec2Model ----
(***************************************************************************)
(* The SkillInteractor of virtual-alexa: the session / audio-player state  *)
(* machine and the dispatch path of launched, intended, spoken and         *)
(* sessionEnded.                                                           *)
(*                                                                         *)
(* The repository holds two revisions of class SkillInteractor:            *)
(*   variant = "invoke"         src/unnamed/part_000   (abstract invoke,   *)
(*                              requestFilter, async callSkill)            *)
(*   variant = "ModuleInvoker"  src/src/SkillInteractor.ts (handler string *)
(*                              and ModuleInvoker.invoke)                  *)
(* Init picks one; every action branches on it where the two differ.       *)
(***************************************************************************)
EXTENDS Integers, FiniteSets, Sequences, Bags, TLC

\* Number of public operations issued in one behaviour.
MaxCalls == 3

\* Number of public operations issued in one behaviour of FairSpec.
MaxFairCalls == 2

VARIABLES
    variant,             \* which revision of SkillInteractor runs
    audioPlayerEnabled,  \* SkillContext.audioPlayerEnabled()
    audioPlayer,         \* AudioPlayer state
    session,             \* the SkillContext's Session
    sessionCount,        \* Sessions created so far (source of identifiers)
    issued,              \* public operations issued so far
    invocations,         \* calls of the invocation collaborator so far
    pending,             \* the bag of round trips in flight
    newSent,             \* envelopes serialized with new = true for the
                         \* Session that is current
    last                 \* the step just taken, with what it read and wrote

vars == <<variant, audioPlayerEnabled, audioPlayer, session, sessionCount,
          issued, invocations, pending, newSent, last>>

Variants == {"invoke", "ModuleInvoker"}

----------------------------------------------------------------------------
\* Data

Keys == {"k1"}

\* An attribute mapping: each key is bound to a value or is not in the map.
AttrMaps == [Keys -> {"none", "v"}]

NoAttributes == [k \in Keys |-> "none"]

\* The sessionAttributes field of a response payload: absent, or a mapping.
AttrFields ==
    {[present |-> FALSE, map |-> NoAttributes]}
        \cup {[present |-> TRUE, map |-> m] : m \in AttrMaps}

\* The response field of a payload: absent, or an object with its flag.
ResponseFields ==
    {[present |-> FALSE, shouldEndSession |-> FALSE]}
        \cup {[present |-> TRUE, shouldEndSession |-> b] : b \in BOOLEAN}

NullResult ==
    [kind |-> "null", shouldEndSession |-> FALSE,
     response |-> [present |-> FALSE, shouldEndSession |-> FALSE],
     sessionAttributes |-> [present |-> FALSE, map |-> NoAttributes]]

Undefined == [NullResult EXCEPT !.kind = "undefined"]

Absent == [present |-> FALSE, map |-> NoAttributes]

\* What the invocation collaborator resolves with: no payload; a payload
\* without sessionAttributes, with every combination of the top-level flag and
\* the response field; a payload whose two flags agree, with every
\* sessionAttributes field.
Results ==
    {NullResult}
        \cup {[kind |-> "object", shouldEndSession |-> t, response |-> r,
               sessionAttributes |-> Absent] :
                 t \in BOOLEAN, r \in ResponseFields}
        \cup {[kind |-> "object", shouldEndSession |-> b,
               response |-> [present |-> TRUE, shouldEndSession |-> b],
               sessionAttributes |-> a] :
                 b \in BOOLEAN, a \in AttrFields}

AudioPlayerStates == {"IDLE", "PLAYING", "SUSPENDED"}

SessionEndedReasons == {"USER_INITIATED", "ERROR"}

\* The caller-supplied mutation hooks tried: none, and one that rewrites a
\* field the core wrote and counts its own applications.
RequestFilters == {"none", "tamper"}

\* The interaction model of the concrete scenario: sample utterances and the
\* default phrase.
Intents == {"HelloIntent", "HelpIntent"}

Phrases == {"hello", "xyzzy"}

defaultUtterance == "help"

\* Utterance.matched()
matched(phrase) == phrase \in {"hello", "help"}

\* Utterance.intent()
intent(phrase) == IF phrase = "hello" THEN "HelloIntent" ELSE "HelpIntent"

----------------------------------------------------------------------------
\* SkillContext and Session

newSession(n) ==
    [id |-> n + 1, isNew |-> TRUE, isActive |-> TRUE, attributes |-> NoAttributes]

endSession(s) == [s EXCEPT !.isActive = FALSE]

activeSession(s) == s.isActive

used(s) == [s EXCEPT !.isNew = FALSE]

updateAttributes(s, field) ==
    IF field.present THEN [s EXCEPT !.attributes = field.map] ELSE s

\* AudioPlayer.isPlaying() and AudioPlayer.suspend()
isPlaying(player) == player = "PLAYING"

suspend(player) == IF player = "PLAYING" THEN "SUSPENDED" ELSE player

----------------------------------------------------------------------------
\* SkillRequest

launchRequest ==
    [type |-> "LaunchRequest", intent |-> "none", slots |-> {}, reason |-> "none"]

intentRequest(intentName, slots) ==
    [type |-> "IntentRequest", intent |-> intentName, slots |-> slots,
     reason |-> "none"]

sessionEndedRequest(reason) ==
    [type |-> "SessionEndedRequest", intent |-> "none", slots |-> {},
     reason |-> reason]

requiresSession(serviceRequest) ==
    serviceRequest.type \in {"LaunchRequest", "IntentRequest", "SessionEndedRequest"}

\* SkillRequest.toJSON(): the envelope, read from the context when it is called.
toJSON(serviceRequest, s, player) ==
    [session |-> [sessionId |-> s.id, new |-> s.isNew, attributes |-> s.attributes],
     request |-> serviceRequest,
     playerActivity |-> player,
     stamp |-> 0]

NoJSON ==
    [session |-> [sessionId |-> 0, new |-> FALSE, attributes |-> NoAttributes],
     request |-> [type |-> "none", intent |-> "none", slots |-> {}, reason |-> "none"],
     playerActivity |-> "IDLE",
     stamp |-> 0]

\* One run of a mutation hook on an envelope.
RunFilter(requestFilter, requestJSON) ==
    IF requestFilter = "tamper"
    THEN [requestJSON EXCEPT !.session.new = ~@, !.stamp = @ + 1]
    ELSE requestJSON

----------------------------------------------------------------------------
\* SkillInteractor: the parts of callSkill, callSkillWithIntent and sessionEnded

\* Faulty variant: the lazy creation is left out.
SessionAtDispatch_NoCreation(serviceRequest, s, n) == s

\* Faulty variant: the ended Session is switched back on instead of replaced.
SessionAtDispatch_Reactivates(serviceRequest, s, n) ==
    IF requiresSession(serviceRequest) /\ ~activeSession(s)
    THEN [s EXCEPT !.isActive = TRUE]
    ELSE s

\* callSkill: create the session at the last possible minute.
SessionAtDispatch(serviceRequest, s, n) ==
    IF requiresSession(serviceRequest) /\ ~activeSession(s) THEN newSession(n) ELSE s

\* Faulty variant: the hook is never run.
ApplyRequestFilter_Skipped(v, requestFilter, requestJSON) == requestJSON

\* callSkill: if (requestFilter) requestFilter(requestJSON). The ModuleInvoker
\* revision has no requestFilter parameter.
ApplyRequestFilter(v, requestFilter, requestJSON) ==
    IF v = "invoke" /\ requestFilter # "none"
    THEN RunFilter(requestFilter, requestJSON)
    ELSE requestJSON

\* Faulty variant: both revisions read the top-level flag.
shouldEndSession_TopLevel(v, result) ==
    /\ result.kind = "object"
    /\ result.shouldEndSession

\* The end-of-session test of callSkill:
\*   invoke:         result && result.response && result.response.shouldEndSession
\*   ModuleInvoker:  result && result.shouldEndSession
shouldEndSession(v, result) ==
    IF v = "invoke"
    THEN /\ result.kind = "object"
         /\ result.response.present
         /\ result.response.shouldEndSession
    ELSE /\ result.kind = "object"
         /\ result.shouldEndSession

\* Faulty variant: the Session is not marked used.
AfterInvoke_NotUsed(v, s, result) ==
    IF activeSession(s)
    THEN IF shouldEndSession(v, result)
         THEN endSession(s)
         ELSE IF result.kind = "object"
              THEN updateAttributes(s, result.sessionAttributes)
              ELSE s
    ELSE s

\* Faulty variant: the Session is marked used only when it ends.
AfterInvoke_UsedAtEnd(v, s, result) ==
    IF activeSession(s)
    THEN IF shouldEndSession(v, result)
         THEN endSession(used(s))
         ELSE IF result.kind = "object"
              THEN updateAttributes(s, result.sessionAttributes)
              ELSE s
    ELSE s

\* Faulty variant: the attributes are updated before the end-of-session test.
AfterInvoke_UpdatesThenEnds(v, s, result) ==
    IF activeSession(s)
    THEN LET u == IF result.kind = "object"
                  THEN updateAttributes(used(s), result.sessionAttributes)
                  ELSE used(s)
         IN  IF shouldEndSession(v, result) THEN endSession(u) ELSE u
    ELSE s

\* Faulty variant: updateAttributes is never called.
AfterInvoke_NoUpdate(v, s, result) ==
    IF activeSession(s)
    THEN IF shouldEndSession(v, result) THEN endSession(used(s)) ELSE used(s)
    ELSE s

\* Faulty variant: the test of activeSession() is left out.
AfterInvoke_Unguarded(v, s, result) ==
    IF shouldEndSession(v, result)
    THEN endSession(used(s))
    ELSE IF result.kind = "object"
         THEN updateAttributes(used(s), result.sessionAttributes)
         ELSE used(s)

\* callSkill after the invocation resolved: the Session it leaves. Reading
\* result.sessionAttributes of an absent result raises before updateAttributes.
AfterInvoke(v, s, result) ==
    IF activeSession(s)
    THEN IF shouldEndSession(v, result)
         THEN endSession(used(s))
         ELSE IF result.kind = "object"
              THEN updateAttributes(used(s), result.sessionAttributes)
              ELSE used(s)
    ELSE s

\* callSkill after the invocation resolved: whether it raises a TypeError.
RaisesTypeError(v, s, result) ==
    /\ activeSession(s)
    /\ ~shouldEndSession(v, result)
    /\ result.kind # "object"

\* What the promise of callSkill resolves with.
CallSkillValue(v, result) == IF v = "invoke" THEN result ELSE Undefined

\* Faulty variant: neither revision waits for the reply of sessionEnded.
SessionAfterDispatch_NeverWaits(v, op, s) ==
    IF op = "sessionEnded" THEN endSession(s) ELSE s

\* sessionEnded of the ModuleInvoker revision: "We do not wait for a reply -
\* the session ends right away".
SessionAfterDispatch(v, op, s) ==
    IF v = "ModuleInvoker" /\ op = "sessionEnded" THEN endSession(s) ELSE s

\* Faulty variant: the then-callback leaves the Session as it is.
SessionEndedThen_Keeps(s) == s

\* sessionEnded of the invoke revision: callSkill(...).then(() => endSession()).
SessionEndedThen(s) == endSession(s)

\* Faulty variant: the audio player is never suspended.
SuspendForIntent_Never(enabled, player) == player

\* callSkillWithIntent: suspend the audio player for an uttered intent.
SuspendForIntent(enabled, player) ==
    IF enabled /\ isPlaying(player) THEN suspend(player) ELSE player

\* spoken: the phrase whose intent is requested; the default phrase stands in
\* for one that matches no template.
SpokenPhrase(utteranceString) ==
    IF matched(utteranceString) THEN utteranceString ELSE defaultUtterance

\* Faulty variant: the fallback is reported for every phrase.
FallbackWarnings_Always(utteranceString) == 1

\* spoken: the number of console.warn calls.
FallbackWarnings(utteranceString) == IF matched(utteranceString) THEN 0 ELSE 1

\* new SkillRequest(context).intentRequest(intentName) raises for an intent the
\* interaction model does not declare.
BuildRaises(intentName) == intentName \notin Intents

\* intended: try { callSkillWithIntent } catch (e) { Promise.reject(e) } in the
\* invoke revision; the ModuleInvoker revision lets the fault escape.
BuildFaultOutcome(v, op) ==
    IF v = "invoke" /\ op = "intended" THEN "rejected" ELSE "thrown"

\* A fault the collaborator raises before it returns a promise: the async
\* callSkill of the invoke revision turns it into a rejection; the callSkill of
\* the ModuleInvoker revision is a plain function and lets it escape.
RaiseOutcome(v) == IF v = "invoke" THEN "rejected" ELSE "thrown"

\* Faulty variant: sessionEnded ends the Session whether or not the
\* invocation succeeded.
SessionOnReject_EndsAnyway(v, op, s) ==
    IF op = "sessionEnded" THEN endSession(s) ELSE s

\* A rejection of the collaborator skips the rest of callSkill and, in the
\* invoke revision, the then-callback of sessionEnded, which has no handler
\* for it.
SessionOnReject(v, op, s) == s

----------------------------------------------------------------------------
\* The record of the step just taken

\* What spoken was given and what it wrote to the console; Unsaid for every
\* other operation.
Said(utteranceString, warnings) ==
    [utterance |-> utteranceString, warnings |-> warnings]

Unsaid == Said("none", 0)

Event(kind, sid, op, filter, json, received, before, active, player, said, result, outcome, value, fault) ==
    [kind |-> kind, sid |-> sid, op |-> op, utterance |-> said.utterance,
     requestFilter |-> filter,
     requestJSON |-> json, received |-> received, before |-> before,
     activeAtInvoke |-> active, playerBefore |-> player,
     warnings |-> said.warnings, result |-> result,
     outcome |-> outcome, value |-> value, fault |-> fault]

\* A round trip in flight: the promise chain the caller holds (launched,
\* intended and spoken return the promise of callSkill; sessionEnded, in the
\* invoke revision, chains a then-callback on it), the session identifier its
\* envelope carries, and where it stands ("invoking": the collaborator has not
\* completed; "then": callSkill has resolved and the then-callback of
\* sessionEnded has not run).
Call(op, sid, stage) ==
    [op |-> IF op = "sessionEnded" THEN "sessionEnded" ELSE "callSkill",
     sid |-> sid, stage |-> stage]

Add(bag, call) == bag (+) SetToBag({call})

Remove(bag, call) == bag (-) SetToBag({call})

FilterInputs == IF variant = "invoke" THEN RequestFilters ELSE {"none"}

IntentNames == {"HelloIntent", "UndeclaredIntent"}

SlotInputs ==
    {[given |-> FALSE, names |-> {}], [given |-> TRUE, names |-> {"slotA"}]}

----------------------------------------------------------------------------
Init ==
    /\ variant \in Variants
    /\ audioPlayerEnabled \in BOOLEAN
    /\ audioPlayer = "IDLE"
    /\ session = newSession(0)
    /\ sessionCount = 1
    /\ issued = 0
    /\ invocations = 0
    /\ pending = EmptyBag
    /\ newSent = 0
    /\ last = Event("construct", 0, "none", "none", NoJSON, NoJSON, session,
                    TRUE, "IDLE", Unsaid, Undefined, "none", Undefined, "none")

\* The synchronous part of callSkill, up to the call of the collaborator.
\* The collaborator either returns its promise (the round trip is in flight)
\* or raises before returning one; in the latter case nothing after the call
\* of the collaborator runs.
callSkill(op, serviceRequest, requestFilter, player, said) ==
    LET atInvoke == SessionAtDispatch(serviceRequest, session, sessionCount)
        requestJSON == toJSON(serviceRequest, atInvoke, player)
        received == ApplyRequestFilter(variant, requestFilter, requestJSON)
        sid == requestJSON.session.sessionId
    IN  /\ sessionCount' = IF atInvoke.id > sessionCount THEN atInvoke.id
                           ELSE sessionCount
        /\ audioPlayer' = player
        /\ issued' = issued + 1
        /\ invocations' = invocations + 1
        /\ newSent' = (IF atInvoke.id = session.id THEN newSent ELSE 0)
                       + (IF requestJSON.session.new THEN 1 ELSE 0)
        /\ \/ /\ session' = SessionAfterDispatch(variant, op, atInvoke)
              /\ pending' = Add(pending, Call(op, sid, "invoking"))
              /\ last' = Event("dispatch", sid, op, requestFilter, requestJSON,
                               received, session, activeSession(atInvoke),
                               audioPlayer, said, Undefined, "pending",
                               Undefined, "none")
           \/ /\ session' = atInvoke
              /\ pending' = pending
              /\ last' = Event("raise", sid, op, "none", NoJSON, NoJSON,
                               session, activeSession(atInvoke), audioPlayer,
                               said, Undefined, RaiseOutcome(variant),
                               Undefined, "InvokeFault")

\* callSkillWithIntent
callSkillWithIntent(op, intentName, slots, requestFilter, said) ==
    LET player == SuspendForIntent(audioPlayerEnabled, audioPlayer)
    IN  IF BuildRaises(intentName)
        THEN /\ audioPlayer' = player
             /\ issued' = issued + 1
             /\ last' = Event("fault", 0, op, requestFilter,
                              NoJSON, NoJSON, session, activeSession(session),
                              audioPlayer, said, Undefined,
                              BuildFaultOutcome(variant, op), Undefined,
                              "BuildFault")
             /\ UNCHANGED <<session, sessionCount, invocations, pending, newSent>>
        ELSE callSkill(op, intentRequest(intentName, slots), requestFilter, player,
                       said)

\* Faulty variant: launched waits until no round trip is in flight.
launched_Serialized(requestFilter) ==
    /\ issued < MaxCalls
    /\ pending = EmptyBag
    /\ callSkill("launched", launchRequest, requestFilter, audioPlayer, Unsaid)
    /\ UNCHANGED <<variant, audioPlayerEnabled>>

\* Faulty variant: launched suspends the audio player as an intent does.
launched_Suspends(requestFilter) ==
    /\ issued < MaxCalls
    /\ callSkill("launched", launchRequest, requestFilter,
                 SuspendForIntent(audioPlayerEnabled, audioPlayer), Unsaid)
    /\ UNCHANGED <<variant, audioPlayerEnabled>>

launched(requestFilter) ==
    /\ issued < MaxCalls
    /\ callSkill("launched", launchRequest, requestFilter, audioPlayer, Unsaid)
    /\ UNCHANGED <<variant, audioPlayerEnabled>>

sessionEnded(sessionEndedReason, requestFilter) ==
    /\ issued < MaxCalls
    /\ callSkill("sessionEnded", sessionEndedRequest(sessionEndedReason),
                 requestFilter, audioPlayer, Unsaid)
    /\ UNCHANGED <<variant, audioPlayerEnabled>>

intended(intentName, slots, requestFilter) ==
    /\ issued < MaxCalls
    /\ callSkillWithIntent("intended", intentName,
                           IF slots.given THEN slots.names ELSE {}, requestFilter,
                           Unsaid)
    /\ UNCHANGED <<variant, audioPlayerEnabled>>

spoken(utteranceString, requestFilter) ==
    /\ issued < MaxCalls
    /\ callSkillWithIntent("spoken", intent(SpokenPhrase(utteranceString)), {},
                           requestFilter,
                           Said(utteranceString, FallbackWarnings(utteranceString)))
    /\ UNCHANGED <<variant, audioPlayerEnabled>>

\* The collaborator resolves round trip c with result: callSkill resumes.
invokeResolves(c, result) ==
    /\ c.stage = "invoking"
    /\ LET raises == RaisesTypeError(variant, session, result)
           waits == ~raises /\ variant = "invoke" /\ c.op = "sessionEnded"
           value == IF raises \/ waits THEN Undefined
                    ELSE CallSkillValue(variant, result)
           outcome == IF raises THEN "rejected"
                      ELSE IF waits THEN "pending" ELSE "resolved"
       IN  /\ session' = AfterInvoke(variant, session, result)
           /\ pending' = IF waits
                         THEN Add(Remove(pending, c), Call(c.op, c.sid, "then"))
                         ELSE Remove(pending, c)
           /\ last' = Event("complete", c.sid, c.op, "none", NoJSON, NoJSON,
                            session, activeSession(session), audioPlayer, Unsaid,
                            result, outcome, value,
                            IF raises THEN "TypeError" ELSE "none")
    /\ UNCHANGED <<variant, audioPlayerEnabled, audioPlayer, sessionCount,
                   issued, invocations, newSent>>

\* The collaborator raises or rejects round trip c.
invokeRejects(c) ==
    /\ c.stage = "invoking"
    /\ pending' = Remove(pending, c)
    /\ session' = SessionOnReject(variant, c.op, session)
    /\ last' = Event("reject", c.sid, c.op, "none", NoJSON, NoJSON, session,
                     activeSession(session), audioPlayer, Unsaid, Undefined,
                     "rejected", Undefined, "InvokeFault")
    /\ UNCHANGED <<variant, audioPlayerEnabled, audioPlayer, sessionCount,
                   issued, invocations, newSent>>

\* The then-callback of sessionEnded (invoke revision) runs.
sessionEndedThen(c) ==
    /\ c.stage = "then"
    /\ session' = SessionEndedThen(session)
    /\ pending' = Remove(pending, c)
    /\ last' = Event("then", c.sid, c.op, "none", NoJSON, NoJSON, session,
                     activeSession(session), audioPlayer, Unsaid, Undefined,
                     "resolved", Undefined, "none")
    /\ UNCHANGED <<variant, audioPlayerEnabled, audioPlayer, sessionCount,
                   issued, invocations, newSent>>

\* Playback starts, resumes or stops: driven from outside this class.
playback(state) ==
    /\ \/ state = "PLAYING" /\ audioPlayer \in {"IDLE", "SUSPENDED"}
       \/ state = "IDLE" /\ audioPlayer = "PLAYING"
    /\ audioPlayer' = state
    /\ last' = Event("playback", 0, "none", "none", NoJSON, NoJSON, session,
                     activeSession(session), audioPlayer, Unsaid, Undefined, "none",
                     Undefined, "none")
    /\ UNCHANGED <<variant, audioPlayerEnabled, session, sessionCount, issued,
                   invocations, pending, newSent>>

Next ==
    \/ \E f \in FilterInputs : launched(f)
    \/ \E r \in SessionEndedReasons, f \in FilterInputs : sessionEnded(r, f)
    \/ \E i \in IntentNames, s \in SlotInputs, f \in FilterInputs : intended(i, s, f)
    \/ \E p \in Phrases, f \in FilterInputs : spoken(p, f)
    \/ \E c \in BagToSet(pending), result \in Results : invokeResolves(c, result)
    \/ \E c \in BagToSet(pending) : invokeRejects(c)
    \/ \E c \in BagToSet(pending) : sessionEndedThen(c)
    \/ \E state \in AudioPlayerStates : playback(state)

Spec == Init /\ [][Next]_vars

\* The collaborator completes (resolves or rejects) a round trip in flight.
Completes ==
    \E c \in BagToSet(pending) :
        \/ \E result \in Results : invokeResolves(c, result)
        \/ invokeRejects(c)

\* The collaborator completes every invocation, and the job queue runs the
\* then-callback of a promise that has resolved.
FairNext ==
    \/ issued < MaxFairCalls /\ \E f \in FilterInputs : launched(f)
    \/ issued < MaxFairCalls /\ \E r \in SessionEndedReasons, f \in FilterInputs : sessionEnded(r, f)
    \/ issued < MaxFairCalls /\ \E i \in IntentNames, s \in SlotInputs, f \in FilterInputs : intended(i, s, f)
    \/ issued < MaxFairCalls /\ \E p \in Phrases, f \in FilterInputs : spoken(p, f)
    \/ \E c \in BagToSet(pending), result \in Results : invokeResolves(c, result)
    \/ \E c \in BagToSet(pending) : invokeRejects(c)
    \/ \E c \in BagToSet(pending) : sessionEndedThen(c)
    \/ \E state \in AudioPlayerStates : playback(state)

FairSpec ==
    /\ Init
    /\ [][FairNext]_vars
    /\ WF_vars(Completes)
    /\ WF_vars(\E c \in BagToSet(pending) : sessionEndedThen(c))

----------------------------------------------------------------------------
\* Properties

Dispatched == last.kind = "dispatch"

Completed == last.kind = "complete"

IntentTriggered == last.op \in {"intended", "spoken"}

\* C1: every request handed to the collaborator is dispatched while the
\* Session is active and carries that Session's identifier; when no Session
\* was active when the operation was called, the one in the envelope was
\* created by this dispatch.
C1_ActiveAtDispatch ==
    Dispatched =>
        /\ last.activeAtInvoke
        /\ last.requestJSON.session.sessionId = session.id
        /\ ~last.before.isActive => session.id # last.before.id

C1_LazyCreation ==
    /\ Dispatched
    /\ ~last.before.isActive
    /\ last.activeAtInvoke

\* C2 as stated: dispatching sessionEnded leaves the Session active, the
\* Session is terminated by the completion of that round trip, and nothing but
\* that completion or an end-of-session response terminates a Session.
C2_EndsOnlyOnCompletion ==
    /\ (Dispatched /\ last.op = "sessionEnded") => session.isActive
    /\ last.kind = "then" => ~session.isActive
    /\ (~Dispatched /\ last.before.isActive /\ ~session.isActive) =>
           \/ last.kind = "then"
           \/ Completed /\ shouldEndSession(variant, last.result)

\* C2 as amended: the invoke revision terminates the Session when the round
\* trip of sessionEnded completes; the ModuleInvoker revision terminates it in
\* the dispatching call, without waiting for the reply.
C2_SessionEndedTermination ==
    /\ (Dispatched /\ last.op = "sessionEnded") =>
           (session.isActive <=> variant = "invoke")
    /\ (Dispatched /\ last.op # "sessionEnded") => session.isActive
    /\ last.kind = "then" => variant = "invoke" /\ ~session.isActive
    /\ (~Dispatched /\ last.before.isActive /\ ~session.isActive) =>
           \/ last.kind = "then"
           \/ Completed /\ shouldEndSession(variant, last.result)

C2_TerminatedByThen ==
    /\ last.kind = "then"
    /\ last.before.isActive
    /\ ~session.isActive

\* C3: the Session is new and active right after construction, and a round
\* trip of launched, intended or spoken that completes on an active Session
\* with a response that does not signal end-of-session leaves it active and
\* not new.
C3_UsedAfterRoundTrip ==
    /\ last.kind = "construct" => session.isNew /\ session.isActive
    /\ (Completed /\ last.op = "callSkill" /\ last.before.isActive
            /\ ~shouldEndSession(variant, last.result)) =>
           session.isActive /\ ~session.isNew /\ session.id = last.before.id

C3_FirstRoundTrip ==
    /\ Completed
    /\ last.op = "callSkill"
    /\ last.before.isActive
    /\ last.before.isNew
    /\ last.result.kind = "object"
    /\ ~shouldEndSession(variant, last.result)
    /\ ~session.isNew

\* C4: a call made after the Session has ended serializes an envelope carrying
\* a brand-new Session: new = true, an identifier no earlier Session had, and
\* an empty attribute mapping.
C4_BrandNewSession ==
    (Dispatched /\ ~last.before.isActive) =>
        /\ last.requestJSON.session.new
        /\ last.requestJSON.session.attributes = NoAttributes
        /\ last.requestJSON.session.sessionId \notin 1..last.before.id
        /\ \A c \in BagToSet(pending) :
               c.sid <= last.requestJSON.session.sessionId

C4_AfterUsedSession ==
    /\ Dispatched
    /\ ~last.before.isActive
    /\ ~last.before.isNew
    /\ last.before.attributes # NoAttributes
    /\ last.requestJSON.session.new

\* C5 as stated: of the envelopes serialized for one Session, exactly one has
\* new = true.
C5_ExactlyOneNewEnvelope == Dispatched => newSent = 1

\* C5 as amended: isNew is true from the creation of a Session until the first
\* round trip completes successfully while it is active, and false from then
\* on; every envelope serialized before that completion has new = true (there
\* are several when calls overlap or an invocation fails), every envelope
\* serialized after it has new = false.
C5_NewUntilFirstCompletion ==
    /\ Dispatched =>
           last.requestJSON.session.new =
               (IF last.before.isActive THEN last.before.isNew ELSE TRUE)
    /\ (Completed /\ last.before.isActive) => ~session.isNew
    /\ (session.id = last.before.id /\ ~last.before.isNew) => ~session.isNew
    /\ (last.kind \in {"reject", "fault", "playback", "then"}) =>
           session.isNew = last.before.isNew
    /\ (Dispatched /\ ~last.requestJSON.session.new) => newSent >= 1
    /\ (Dispatched /\ last.requestJSON.session.new /\ newSent > 1) =>
           last.before.isActive /\ last.before.isNew

C5_SecondEnvelopeNotNew ==
    /\ Dispatched
    /\ last.before.isActive
    /\ ~last.requestJSON.session.new
    /\ newSent = 1

\* C6 as stated: whenever intended or spoken builds and dispatches its
\* request, the audio player is not PLAYING.
C6_NeverPlayingAtIntent ==
    (Dispatched /\ IntentTriggered) =>
        /\ last.requestJSON.playerActivity # "PLAYING"
        /\ audioPlayer # "PLAYING"

\* C6 as amended: when the audio player is enabled for the skill, it is not
\* PLAYING when intended or spoken builds and dispatches its request; when it
\* is not enabled the call leaves the player as it found it.
C6_SuspendedWhenEnabled ==
    (Dispatched /\ IntentTriggered) =>
        /\ audioPlayerEnabled =>
               /\ last.requestJSON.playerActivity # "PLAYING"
               /\ audioPlayer # "PLAYING"
        /\ ~audioPlayerEnabled =>
               /\ last.requestJSON.playerActivity = last.playerBefore
               /\ audioPlayer = last.playerBefore

C6_SuspendedFromPlaying ==
    /\ Dispatched
    /\ IntentTriggered
    /\ audioPlayerEnabled
    /\ last.playerBefore = "PLAYING"
    /\ last.requestJSON.playerActivity = "SUSPENDED"

\* C7: when callSkill resumes with a Session active it marks it used; on an
\* end-of-session response the Session becomes inactive with its attributes
\* as they were, otherwise it stays active with the attribute-update policy
\* applied; with no Session active nothing of the Session changes.
C7_CompletionProcessing ==
    Completed =>
        IF last.before.isActive
        THEN /\ ~session.isNew
             /\ session.id = last.before.id
             /\ IF shouldEndSession(variant, last.result)
                THEN /\ ~session.isActive
                     /\ session.attributes = last.before.attributes
                ELSE /\ session.isActive
                     /\ session.attributes =
                            IF last.result.sessionAttributes.present
                            THEN last.result.sessionAttributes.map
                            ELSE last.before.attributes
        ELSE session = last.before

C7_EndWithAttributes ==
    /\ Completed
    /\ last.before.isActive
    /\ shouldEndSession(variant, last.result)
    /\ last.result.sessionAttributes.present
    /\ last.result.sessionAttributes.map # last.before.attributes
    /\ ~session.isActive

\* C8 as stated: a payload whose top-level end-of-session flag is set
\* terminates the Session on completion, one whose top-level flag is not set
\* leaves it active.
C8_TopLevelFlag ==
    (Completed /\ last.before.isActive /\ last.result.kind = "object") =>
        (session.isActive <=> ~last.result.shouldEndSession)

\* C8 as amended: the invoke revision reads the flag inside the payload's
\* response object (response.shouldEndSession) and ignores a top-level flag;
\* the ModuleInvoker revision reads the top-level flag.
C8_FlagRead ==
    (Completed /\ last.before.isActive /\ last.result.kind = "object") =>
        (session.isActive <=>
            ~(IF variant = "invoke"
              THEN last.result.response.present
                       /\ last.result.response.shouldEndSession
              ELSE last.result.shouldEndSession))

C8_NestedFlagEnds ==
    /\ Completed
    /\ variant = "invoke"
    /\ last.before.isActive
    /\ ~last.result.shouldEndSession
    /\ last.result.response.present
    /\ last.result.response.shouldEndSession
    /\ ~session.isActive

\* C9: on a completed round trip that leaves the Session active, its attribute
\* mapping is the response's mapping, replaced wholesale (an empty mapping
\* clears it), and is the prior mapping when the response has no attributes
\* field.
C9_AttributesReplaced ==
    (Completed /\ last.before.isActive /\ session.isActive
         /\ last.result.kind = "object") =>
        /\ last.result.sessionAttributes.present =>
               session.attributes = last.result.sessionAttributes.map
        /\ ~last.result.sessionAttributes.present =>
               session.attributes = last.before.attributes

C9_Cleared ==
    /\ Completed
    /\ last.before.isActive
    /\ session.isActive
    /\ last.before.attributes # NoAttributes
    /\ last.result.sessionAttributes.present
    /\ last.result.sessionAttributes.map = NoAttributes
    /\ session.attributes = NoAttributes

\* C10: a mutation hook is run exactly once, on the envelope serialized after
\* the lazy session creation, and the collaborator receives the envelope as
\* the hook left it.
C10_HookFidelity ==
    (Dispatched /\ last.requestFilter # "none") =>
        /\ last.activeAtInvoke
        /\ last.requestJSON.session.sessionId = session.id
        /\ last.requestJSON.stamp = 0
        /\ last.received.stamp = 1
        /\ last.received.session.new = ~last.requestJSON.session.new
        /\ last.received = RunFilter(last.requestFilter, last.requestJSON)

C10_HookOnFreshSession ==
    /\ Dispatched
    /\ last.requestFilter = "tamper"
    /\ ~last.before.isActive
    /\ last.received.session.sessionId = session.id
    /\ ~last.received.session.new

Rejected == last.kind = "reject"

Raised == last.kind = "raise"

BuildFaulted == last.kind = "fault"

InFlight == BagCardinality(pending)

\* C11: the collaborator is invoked at most once for each operation issued, and
\* an operation whose invocation the collaborator raises in or rejects ends
\* with a failed asynchronous result that carries the fault of the
\* collaborator.
C11_FaultIsFailedResult ==
    /\ invocations <= issued
    /\ (Rejected \/ Raised) =>
           last.outcome = "rejected" /\ last.fault = "InvokeFault"

\* The case of C11 where the fault escapes: the collaborator raises before it
\* returns a promise, in the ModuleInvoker revision.
C11_RaiseEscapes ==
    /\ Raised
    /\ variant = "ModuleInvoker"
    /\ last.op = "launched"
    /\ last.outcome = "thrown"

\* C12: a fault raised while intended builds the intent request is the
\* rejection of the promise intended returns, never a fault raised to its
\* caller, and the collaborator is not invoked for it.
C12_BuildFaultRejected ==
    (BuildFaulted /\ last.op = "intended") =>
        /\ last.outcome = "rejected"
        /\ last.fault = "BuildFault"
        /\ invocations < issued

\* The case of C12 where intended raises to its caller.
C12_BuildFaultThrown ==
    /\ BuildFaulted
    /\ last.op = "intended"
    /\ variant = "ModuleInvoker"
    /\ last.outcome = "thrown"
    /\ invocations = 0

\* C13: an operation that ends with a successful result ends with the payload
\* the collaborator returned for its request.
C13_ResultIsPayload ==
    last.outcome = "resolved" =>
        /\ last.value \in Results
        /\ Completed => last.value = last.result

\* The case of C13 where sessionEnded, in the invoke revision, ends with
\* undefined: the value of its then-callback.
C13_SessionEndedUndefined ==
    /\ last.kind = "then"
    /\ variant = "invoke"
    /\ last.outcome = "resolved"
    /\ last.value = Undefined

Handed == last.kind \in {"dispatch", "raise"}

C15_PlayerFrame ==
    last.kind # "playback" =>
        \/ audioPlayer = last.playerBefore
        \/ /\ IntentTriggered
           /\ last.kind \in {"dispatch", "raise", "fault"}
           /\ audioPlayerEnabled
           /\ last.playerBefore = "PLAYING"
           /\ audioPlayer = "SUSPENDED"

C15_LaunchedWhilePlaying ==
    /\ Dispatched
    /\ last.op = "launched"
    /\ audioPlayerEnabled
    /\ ~last.before.isActive
    /\ last.playerBefore = "PLAYING"
    /\ audioPlayer = "PLAYING"

\* C16: an operation can be dispatched whatever round trips are in flight,
\* and the lazy session check of a dispatch reads the Session as it is in
\* that step: the envelope carries a Session created by the step exactly when
\* the Session was not active right before it.
C16_NotSerialized ==
    /\ issued < MaxCalls =>
           /\ ENABLED (\E f \in FilterInputs : launched(f))
           /\ ENABLED (\E r \in SessionEndedReasons, f \in FilterInputs :
                          sessionEnded(r, f))
           /\ ENABLED (\E i \in IntentNames, s \in SlotInputs, f \in FilterInputs :
                          intended(i, s, f))
           /\ ENABLED (\E p \in Phrases, f \in FilterInputs : spoken(p, f))
    /\ Handed =>
           /\ last.activeAtInvoke
           /\ last.sid # last.before.id <=> ~last.before.isActive
           /\ last.sid = last.before.id \/ last.sid = sessionCount

C16_OverlappingDispatch ==
    /\ Dispatched
    /\ InFlight >= 2
    /\ ~last.before.isActive
    /\ last.sid # last.before.id
    /\ \E c \in BagToSet(pending) : c.stage = "invoking" /\ c.sid # last.sid

Settled == last.outcome \in {"resolved", "rejected", "thrown"}

\* C17: the result of a dispatched operation is pending until the collaborator
\* completes, the operation leaves the Session it was dispatched on as it is
\* until then, and when the collaborator completes every invocation every
\* operation issued settles.
C17_PendingUntilCompletion ==
    /\ [](Dispatched =>
             /\ last.outcome = "pending"
             /\ session.id = last.sid
             /\ session.isActive
             /\ last.before.isActive => session = last.before)
    /\ [](Settled => last.kind \in {"complete", "reject", "then", "raise", "fault"})
    /\ (InFlight > 0) ~> (InFlight = 0)

\* C17 as amended: as C17, but sessionEnded of the ModuleInvoker revision ends
\* the Session in the dispatching step, while its result is pending.
C17_SettlesOnCompletion ==
    /\ [](Dispatched =>
             /\ last.outcome = "pending"
             /\ session.id = last.sid
             /\ session.isActive <=> ~(variant = "ModuleInvoker" /\ last.op = "sessionEnded")
             /\ last.before.isActive =>
                    session = SessionAfterDispatch(variant, last.op, last.before))
    /\ [](Settled => last.kind \in {"complete", "reject", "then", "raise", "fault"})
    /\ [](last.kind \in {"reject", "fault", "playback"} => session = last.before)
    /\ (InFlight > 0) ~> (InFlight = 0)

C17_AllSettled ==
    /\ last.kind = "then"
    /\ last.outcome = "resolved"
    /\ issued >= 2
    /\ InFlight = 0

Continued == last.kind \in {"complete", "then"}

\* C18: the completion of a round trip changes only the Session whose
\* identifier its envelope carried.
C18_OnlyOwnSession ==
    (Continued /\ session # last.before) => last.before.id = last.sid

\* C18 as amended: the completion of a round trip changes the Session that is
\* current and active when it completes, and no other: that is the Session of
\* its envelope, or one created by a later dispatch after that Session ended.
C18_CurrentSession ==
    Continued =>
        /\ session.id = last.before.id
        /\ ~last.before.isActive => session = last.before
        /\ last.before.id >= last.sid
        /\ last.before.id > last.sid => newSent >= 1
        /\ (Completed /\ last.before.isActive) => ~session.isNew
        /\ last.kind = "then" => ~session.isActive

C18_StaleCompletion ==
    /\ Completed
    /\ last.before.id > last.sid
    /\ last.before.isNew
    /\ ~session.isNew

\* C19: an operation whose invocation fails leaves the Session as it was when
\* it was dispatched, neither used nor terminated; a sessionEnded whose
\* invocation fails has not terminated the Session.
C19_FailureLeavesSession ==
    /\ Rejected => session = last.before
    /\ Raised =>
           /\ session.isActive
           /\ last.before.isActive => session = last.before
    /\ (Dispatched /\ last.op = "sessionEnded") => session.isActive

\* C19 as amended: the failure itself changes nothing in either revision, but
\* sessionEnded of the ModuleInvoker revision has terminated the Session in
\* the dispatching step, and the failure does not bring it back.
C19_FailureChangesNothing ==
    /\ Rejected => session = last.before
    /\ Raised =>
           /\ session.isActive
           /\ last.before.isActive => session = last.before
    /\ (Dispatched /\ last.op = "sessionEnded") =>
           (session.isActive <=> variant = "invoke")
    /\ (Rejected /\ last.op = "sessionEnded" /\ variant = "ModuleInvoker"
            /\ session.id = last.sid) => ~session.isActive

C19_FailedSessionEnded ==
    /\ Rejected
    /\ last.op = "sessionEnded"
    /\ variant = "invoke"
    /\ session.id = last.sid
    /\ session.isActive
    /\ session.isNew

AbsentOnActive ==
    /\ Completed
    /\ last.result = NullResult
    /\ last.before.isActive

\* C20: a round trip the collaborator resolves with an absent payload while
\* the Session is active is a success: the Session is used, still active and
\* has the attributes it had, and the result of the operation is not a
\* failure.
C20_AbsentPayloadSucceeds ==
    AbsentOnActive =>
        /\ session = used(last.before)
        /\ session.isActive
        /\ last.outcome # "rejected"
        /\ last.fault = "none"

\* The case of C20 as the code runs it: the Session is marked used and the
\* promise of the operation is rejected with a TypeError.
C20_AbsentPayloadRejected ==
    /\ AbsentOnActive
    /\ session = used(last.before)
    /\ last.outcome = "rejected"
    /\ last.fault = "TypeError"

====
